---------------------------- MODULE Spec2Model ----------------------------
(***************************************************************************)
(* A model of the PI Web API data-source backend: the query pipeline       *)
(* QueryData = processQuery ; batchRequest ; processBatchtoFrames, the     *)
(* WebID cache with its periodic sweep, the streaming-channel registry,    *)
(* and the classifier of batch sub-responses (PIBatchResponse's            *)
(* UnmarshalJSON).                                                         *)
(*                                                                         *)
(* Strings are sequences of one-character strings, so that strings.Index,  *)
(* strings.Split and slicing are computed as the code computes them.       *)
(***************************************************************************)
EXTENDS Integers, Sequences, FiniteSets, TLC

(***************************************************************************)
(* Bounds of the model.                                                    *)
(***************************************************************************)
MaxQueries == 2
MaxCalls == 2
MaxFaults == 1

StatusOK == 200

(***************************************************************************)
(* The width of Go's int depends on the build: 32 bits (386, arm) or 64    *)
(* bits.  The model scales the widths down: int64 has WideBits bits and    *)
(* int has NarrowBits bits on a 32-bit build and WideBits on a 64-bit one. *)
(***************************************************************************)
NarrowBits == 8
WideBits == 16

VARIABLE intBits       \* the width of int on the build that runs

RECURSIVE Pow2(_)
Pow2(n) == IF n = 0 THEN 1 ELSE 2 * Pow2(n - 1)

\* int(x) of an int64 x: the low intBits bits of x, as a signed number.
ToInt(x) ==
  LET m == x % Pow2(intBits)
  IN  IF m >= Pow2(intBits - 1) THEN m - Pow2(intBits) ELSE m

(***************************************************************************)
(* Small value sets the inputs are drawn from.                             *)
(***************************************************************************)
RefIDs == {"A", "B"}
DatasourceUID == "uid"
Threads == {"t1", "t2"}

(***************************************************************************)
(* String helpers: strings.Index (first position of the separator,         *)
(* 0-based, -1 when absent), slicing s[lo:hi] and strings.Split.           *)
(***************************************************************************)
RECURSIVE IndexFrom(_, _, _)
IndexFrom(s, c, i) ==
  IF i > Len(s) THEN -1
  ELSE IF s[i] = c THEN i - 1
  ELSE IndexFrom(s, c, i + 1)

Index(s, c) == IndexFrom(s, c, 1)

\* s[lo:hi] of Go, 0-based and half-open; only called with 0 <= lo <= hi <= len.
Slice(s, lo, hi) == SubSeq(s, lo + 1, hi)

RECURSIVE Split(_, _)
Split(s, c) ==
  LET i == Index(s, c)
  IN  IF i = -1 THEN <<s>>
      ELSE <<Slice(s, 0, i)>> \o Split(Slice(s, i + 1, Len(s)), c)

Str1 == <<"b", ";", "x">>
Str2 == <<"b", ";", "x", ";", "y">>
Str3 == <<"b", ";", "x", ";", "x">>
StrNoSemi == <<"b">>
StrEmpty == <<>>
StrDefault == <<";">>

(***************************************************************************)
(* Query (the decoded backend.DataQuery) with the fields the pipeline      *)
(* reads.  Pi.* fields are flattened: Target, Expression, IsPiPoint,       *)
(* EnableStreaming, Interpolate, RecordedValues, IntervalMs,               *)
(* PiMaxDataPoints, SummaryBasis, SummaryInterval, SummaryTypes.           *)
(***************************************************************************)
BaseQuery ==
  [ RefID |-> "A", Interval |-> 1000, MaxDataPoints |-> 100,
    Target |-> Str1, Expression |-> <<>>, IsPiPoint |-> FALSE,
    EnableStreaming |-> FALSE, Interpolate |-> FALSE, RecordedValues |-> FALSE,
    IntervalMs |-> 0, PiMaxDataPoints |-> 0,
    SummaryBasis |-> <<>>, SummaryInterval |-> <<>>, SummaryTypes |-> <<>> ]

getIntervalTime(q) ==
  IF q.IntervalMs = 0 THEN ToInt(q.Interval) ELSE q.IntervalMs

getMaxDataPoints(q) ==
  IF q.PiMaxDataPoints = 0 THEN q.MaxDataPoints ELSE q.PiMaxDataPoints

streamingEnabled(q) == q.EnableStreaming

isExpression(q) == q.Expression # <<>>

isStreamable(q) == ~isExpression(q) /\ streamingEnabled(q)

isSummary(q) == q.SummaryBasis # <<>> /\ Len(q.SummaryTypes) > 0

getSummaryDuration(q) ==
  IF q.SummaryInterval = <<>> THEN <<"3", "0", "s">> ELSE q.SummaryInterval

\* A Query whose recorded-values switch is not looked at.
isRecordedValuesNever(q) == FALSE

isRecordedValues(q) == q.RecordedValues

isInterpolated(q) == q.Interpolate

(***************************************************************************)
(* A URI is a sequence of components; a component is a record with the     *)
(* literal text, and the number or the string that follows it.             *)
(***************************************************************************)
Tok(name) == [name |-> name, num |-> 0, str |-> <<>>]
TokN(name, n) == [name |-> name, num |-> n, str |-> <<>>]
TokS(name, s) == [name |-> name, num |-> 0, str |-> s]
\* fmt.Sprintf("...=%dms", n): the number with its unit.
TokMs(name, n) == [name |-> name, num |-> n, str |-> <<"m", "s">>]

\* url.QueryEscape, character by character: a letter, a digit and - _ . ~
\* are kept, a space becomes "+", every other character becomes %XX (the
\* characters of the model's alphabet are listed).
Unreserved == {"a", "b", "x", "y", "M", "N", "T", "0", "1", "-", "_", ".", "~"}

EscapeChar(c) ==
  CASE c \in Unreserved -> <<c>>
    [] c = " " -> <<"+">>
    [] c = "+" -> <<"%", "2", "B">>
    [] c = "/" -> <<"%", "2", "F">>
    [] c = "&" -> <<"%", "2", "6">>
    [] c = "%" -> <<"%", "2", "5">>
    [] c = "=" -> <<"%", "3", "D">>
    [] c = ";" -> <<"%", "3", "B">>

\* An escape that leaves the text as it is.
QueryEscapeNothing(s) == s

RECURSIVE QueryEscape(_)
QueryEscape(s) ==
  IF s = <<>> THEN <<>> ELSE EscapeChar(Head(s)) \o QueryEscape(Tail(s))

getTimeRangeURIComponent(q) ==
  <<Tok("?startTime=From"), Tok("&endTime=To")>>

RECURSIVE SummaryTypeParams(_)
SummaryTypeParams(types) ==
  IF types = <<>> THEN <<>>
  ELSE <<TokS("&summaryType=", Head(types))>> \o SummaryTypeParams(Tail(types))

\* A summary component that emits nothing.
getSummaryURIComponentNone(q) == <<>>

getSummaryURIComponent(q) ==
  IF ~isExpression(q)
  THEN SummaryTypeParams(q.SummaryTypes)
       \o <<TokS("&summaryBasis=", q.SummaryBasis)>>
       \o <<TokS("&summaryDuration=", getSummaryDuration(q))>>
  ELSE <<>>

getQueryBaseURL(q) ==
  IF isExpression(q)
  THEN <<Tok("/calculation")>>
       \o (IF isSummary(q)
           THEN <<Tok("/summary")>> \o getTimeRangeURIComponent(q)
                \o (IF isInterpolated(q)
                    THEN <<Tok("&sampleType=Interval"),
                           TokMs("&sampleInterval=", getIntervalTime(q))>>
                    ELSE <<>>)
           ELSE <<Tok("/intervals")>> \o getTimeRangeURIComponent(q)
                \o <<TokMs("&sampleInterval=", getIntervalTime(q))>>)
       \o <<TokS("&expression=", QueryEscape(q.Expression))>>
  ELSE <<Tok("/streamsets")>>
       \o (IF isSummary(q)
           THEN <<Tok("/summary")>> \o getTimeRangeURIComponent(q)
                \o <<TokN("&intervals=", getMaxDataPoints(q))>>
                \o getSummaryURIComponent(q)
           ELSE IF isInterpolated(q)
           THEN <<Tok("/interpolated")>> \o getTimeRangeURIComponent(q)
                \o <<TokN("&interval=", getIntervalTime(q))>>
           ELSE IF isRecordedValues(q)
           THEN <<Tok("/recorded")>> \o getTimeRangeURIComponent(q)
                \o <<TokN("&maxCount=", getMaxDataPoints(q))>>
           ELSE <<Tok("/plot")>> \o getTimeRangeURIComponent(q)
                \o <<TokN("&intervals=", getMaxDataPoints(q))>>)

(***************************************************************************)
(* Path grammar of a target.  getBasePath slices Target[:semiIndex]: with  *)
(* no ";" in the target semiIndex is -1 and the slice panics.              *)
(***************************************************************************)
getBasePathPanics(q) == Index(q.Target, ";") = -1

getBasePath(q) == Slice(q.Target, 0, Index(q.Target, ";"))

getTargets(q) ==
  Split(Slice(q.Target, Index(q.Target, ";") + 1, Len(q.Target)), ";")

\* A join that takes every target for an attribute path.
fullTargetPathAttribute(q, target) == getBasePath(q) \o <<"|">> \o target

fullTargetPath(q, target) ==
  getBasePath(q) \o (IF q.IsPiPoint THEN <<"\\">> ELSE <<"|">>) \o target

(***************************************************************************)
(* JSON of one batch sub-response, by shape.  An element of Content.Items  *)
(* is a JSON value that is an object or not; an object may carry a WebId   *)
(* (a string, or a value of another type), an inner Items list (subOK is   *)
(* FALSE when that list does not decode into []PiBatchContentItem), a      *)
(* UnitsAbbreviation and a Value.                                          *)
(***************************************************************************)
ValueItem(v, u) == [Value |-> v, Units |-> u, Good |-> TRUE]

ElemScalar ==
  [isObj |-> FALSE, WebId |-> "absent", sub |-> <<>>, subOK |-> TRUE,
   Units |-> "", Value |-> ""]
ElemValue ==
  [isObj |-> TRUE, WebId |-> "absent", sub |-> <<>>, subOK |-> TRUE,
   Units |-> "degC", Value |-> "7"]
ElemStream ==
  [isObj |-> TRUE, WebId |-> "string", sub |-> <<ValueItem("12.3", "")>>,
   subOK |-> TRUE, Units |-> "psi", Value |-> ""]
ElemStreamBadValue ==
  [isObj |-> TRUE, WebId |-> "string", sub |-> <<ValueItem("bad", "")>>,
   subOK |-> TRUE, Units |-> "psi", Value |-> ""]
ElemStreamBadSub ==
  [isObj |-> TRUE, WebId |-> "string", sub |-> <<>>, subOK |-> FALSE,
   Units |-> "psi", Value |-> ""]
ElemNumericWebId ==
  [isObj |-> TRUE, WebId |-> "nonstring", sub |-> <<>>, subOK |-> TRUE,
   Units |-> "", Value |-> "7"]

Elems ==
  {ElemScalar, ElemValue, ElemStream, ElemStreamBadValue, ElemStreamBadSub,
   ElemNumericWebId}

MaxItems == 2

ItemLists == UNION {[1..n -> Elems] : n \in 0..MaxItems}

ContentNotObject ==
  [isObj |-> FALSE, Errors |-> "absent", Items |-> "absent", list |-> <<>>,
   Units |-> ""]

Contents ==
  {ContentNotObject}
  \cup [isObj : {TRUE}, Errors : {"absent", "list", "bad"},
        Items : {"absent", "notlist"}, list : {<<>>}, Units : {"", "kW"}]
  \cup [isObj : {TRUE}, Errors : {"absent", "list", "bad"},
        Items : {"list"}, list : ItemLists, Units : {"", "kW"}]

SubResponses == [Status : {StatusOK, 404}, Content : Contents]

(***************************************************************************)
(* The classified content (PiBatchData).  kind is "Error"                  *)
(* (PiBatchDataError), "Flat" (PiBatchDataWithoutSubItems) or "Nested"     *)
(* (PiBatchDataWithSubItems); "nil" is the nil interface value of a        *)
(* ProcessedQuery that no response was assigned to.  The outcome of        *)
(* UnmarshalJSON is that content, an error return ("DecodeErr") or a       *)
(* run-time panic ("Panic").                                               *)
(***************************************************************************)
NilContent == [kind |-> "nil", units |-> "", items |-> <<>>, msg |-> ""]

createPiBatchDataError(msg) ==
  [kind |-> "Error", units |-> "", items |-> <<>>, msg |-> msg]

GenericMessage == "Could not process response from PI Web API"

DecodeErr == [kind |-> "DecodeErr", units |-> "", items |-> <<>>, msg |-> ""]
Panic == [kind |-> "Panic", units |-> "", items |-> <<>>, msg |-> ""]

\* json.Unmarshal of Content into PiBatchDataWithoutSubItems: every element of
\* Items must be a JSON object.
FlatDecodes(c) == \A i \in 1..Len(c.list) : c.list[i].isObj

\* json.Unmarshal of Content into PiBatchDataWithSubItems: every element is an
\* object whose WebId, when present, is a string and whose inner Items decode.
NestedDecodes(c) ==
  \A i \in 1..Len(c.list) :
    /\ c.list[i].isObj
    /\ c.list[i].WebId # "nonstring"
    /\ c.list[i].subOK

FlatItems(c) ==
  [i \in 1..Len(c.list) |-> ValueItem(c.list[i].Value, c.list[i].Units)]

UnmarshalJSON(r) ==
  LET c == r.Content IN
  IF ~c.isObj THEN DecodeErr
  ELSE IF r.Status # StatusOK
  THEN IF c.Errors = "bad" THEN DecodeErr
       ELSE createPiBatchDataError("remote")
  ELSE IF c.Items # "list" THEN createPiBatchDataError(GenericMessage)
  ELSE IF Len(c.list) = 0 THEN Panic
  ELSE IF ~c.list[1].isObj THEN createPiBatchDataError(GenericMessage)
  ELSE IF c.list[1].WebId # "string"
  THEN IF FlatDecodes(c)
       THEN [kind |-> "Flat", units |-> c.Units, items |-> FlatItems(c), msg |-> ""]
       ELSE createPiBatchDataError(GenericMessage)
  ELSE IF NestedDecodes(c)
       THEN [kind |-> "Nested", units |-> c.list[1].Units,
             items |-> c.list[1].sub, msg |-> ""]
       ELSE createPiBatchDataError(GenericMessage)

\* getUnits and getItems of the three variants.
getUnits(d) == d.units
getItems(d) == d.items

(***************************************************************************)
(* The requests of the pipeline: up to MaxQueries queries, each one of a   *)
(* few kinds under any RefID.                                              *)
(***************************************************************************)
QStream == [BaseQuery EXCEPT !.EnableStreaming = TRUE]
QTwo == [BaseQuery EXCEPT !.Target = Str2]
QNoSemi == [BaseQuery EXCEPT !.Target = StrNoSemi, !.EnableStreaming = TRUE]
QEmpty == [BaseQuery EXCEPT !.Target = StrEmpty]
QPoint ==
  [BaseQuery EXCEPT !.Target = Str3, !.IsPiPoint = TRUE,
                    !.Expression = <<"a", "+">>, !.EnableStreaming = TRUE]

QueryKinds == {QStream, QTwo, QNoSemi, QEmpty, QPoint}

Queries == {[k EXCEPT !.RefID = r] : k \in QueryKinds, r \in RefIDs}

\* RefIDs are names: up to renaming, the first query of a request is "A".
Requests ==
  {r \in UNION {[1..n -> Queries] : n \in 1..MaxQueries} : r[1].RefID = "A"}

\* The sub-responses the remote API answers with in the pipeline.
SubNested ==
  [Status |-> StatusOK,
   Content |-> [isObj |-> TRUE, Errors |-> "absent", Items |-> "list",
                list |-> <<ElemStream>>, Units |-> ""]]
SubNestedBadValue ==
  [Status |-> StatusOK,
   Content |-> [isObj |-> TRUE, Errors |-> "absent", Items |-> "list",
                list |-> <<ElemStreamBadValue>>, Units |-> ""]]
SubRemoteError ==
  [Status |-> 404,
   Content |-> [isObj |-> TRUE, Errors |-> "list", Items |-> "absent",
                list |-> <<>>, Units |-> ""]]
SubEmptyItems ==
  [Status |-> StatusOK,
   Content |-> [isObj |-> TRUE, Errors |-> "absent", Items |-> "list",
                list |-> <<>>, Units |-> ""]]
SubNoContent == [Status |-> StatusOK, Content |-> ContentNotObject]

WireSubResponses ==
  {SubNested, SubNestedBadValue, SubRemoteError, SubEmptyItems, SubNoContent}

\* The faults of a raw batch response for n sub-requests: an index left out,
\* or a sub-response other than a well-formed 200 with data.
BodyFaults(body, n) ==
  (n - Len(body)) + Cardinality({k \in 1..Len(body) : body[k].sub # SubNested})

(***************************************************************************)
(* The raw batch response for a RefID with n sub-requests: the remote API  *)
(* answers any subset of the indices 0..n-1, in any order of arrival in    *)
(* the JSON object.                                                        *)
(***************************************************************************)
IdxSeqs(n) ==
  {is \in UNION {[1..k -> 0..(n - 1)] : k \in 0..n} :
     \A a, b \in 1..Len(is) : a # b => is[a] # is[b]}

Bodies(n) ==
  UNION {{[k \in 1..Len(is) |-> [idx |-> is[k], sub |-> ss[k]]] :
            ss \in [1..Len(is) -> WireSubResponses]} : is \in IdxSeqs(n)}

\* json.Unmarshal into map[int]PIBatchResponse: the members are decoded in
\* their order of arrival; the first error return ends the decode, a panic of
\* UnmarshalJSON is not recovered.
RECURSIVE DecodeFrom(_, _, _)
DecodeFrom(body, k, acc) ==
  IF k > Len(body) THEN [result |-> "ok", temp |-> acc]
  ELSE LET d == UnmarshalJSON(body[k].sub) IN
       IF d.kind = "DecodeErr" THEN [result |-> "decodefail", temp |-> <<>>]
       ELSE IF d.kind = "Panic" THEN [result |-> "panic", temp |-> <<>>]
       ELSE DecodeFrom(body, k + 1,
              [i \in DOMAIN acc \cup {body[k].idx} |->
                 IF i = body[k].idx THEN d ELSE acc[i]])

Decode(body) == DecodeFrom(body, 1, <<>>)

\* tempresponse[i].Content: the zero value for an index the map lacks.
ContentAt(temp, i) == IF i \in DOMAIN temp THEN temp[i] ELSE NilContent

VARIABLES
  webIDCache,          \* Datasource.webIDCache: full path -> WebID
  channelConstruct,    \* Datasource.channelConstruct: channel id -> construct
  nextUUID,            \* the channel ids uuid.New has handed out so far
  scheduler,           \* Datasource.scheduler: "running" or "stopped"
  disposed,            \* Dispose has been called on the instance
  calls,               \* QueryData calls started so far
  channelsAtStart,     \* the registry's ids when the call in flight started
  pc,                  \* position of the QueryData call in flight
  req,                 \* req.Queries of the call in flight
  qi,                  \* index of the query processQuery works on
  si,                  \* index of the path segment processQuery works on
  current,             \* processQuery's response slice
  processedQueries,    \* QueryData's map RefID -> []PiProcessedQuery
  todo,                \* RefIDs the range loop in progress has yet to visit
  batchResult,         \* per RefID, what the batch call came back with
  batchCalls,          \* per RefID, the batch calls issued in this call
  response,            \* the QueryDataResponse: RefID -> frames
  resLog,              \* the resolutions of this call, in order
  faults,              \* failures the environment has injected into this call
  resolvedSinceSweep,  \* path -> WebID of the resolutions since the last sweep
  tpc,                 \* per request thread, its position in a concurrent call
  tpath,               \* per request thread, the path its call resolves
  tchan,               \* per request thread, the channel ids its call minted
  spc,                 \* position of the scheduler's goroutine
  raced,               \* the goroutines whose map access in progress is raced
  fatal,               \* the Go runtime has ended the process
  cin,                 \* the sub-response handed to UnmarshalJSON
  cout,                \* what UnmarshalJSON made of it
  uin,                 \* the Query handed to the URI builder
  uout,                \* the URI getQueryBaseURL built for it
  ivals,               \* the results of the calls of getIntervalTime on it
  resourceLog          \* the CallResource calls so far and what each one did

vars ==
  <<webIDCache, channelConstruct, nextUUID, scheduler, disposed, calls,
    channelsAtStart, pc, req, qi, si, current, processedQueries, todo, batchResult, batchCalls,
    response, resLog, faults, resolvedSinceSweep, tpc, tpath, tchan, spc, raced,
    fatal, cin, cout, uin, uout, ivals, intBits, resourceLog>>

callVars ==
  <<channelsAtStart, pc, req, qi, si, current, processedQueries, todo, batchResult, batchCalls,
    response, resLog, faults>>

threadVars == <<tpc, tpath, tchan, spc, raced, fatal>>

functionVars == <<cin, cout, uin, uout, ivals, intBits, resourceLog>>

instanceVars == <<webIDCache, channelConstruct, nextUUID, scheduler, disposed>>

Empty == <<>>

\* m with key k set to v (a Go map assignment).
Put(m, k, v) == [x \in DOMAIN m \cup {k} |-> IF x = k THEN v ELSE m[x]]

(***************************************************************************)
(* NewDatasource: empty cache and registry, the sweep scheduled every five *)
(* minutes and the scheduler started.                                      *)
(***************************************************************************)
NewDatasource ==
  /\ webIDCache = Empty
  /\ channelConstruct = Empty
  /\ nextUUID = 0
  /\ scheduler = "running"
  /\ disposed = FALSE

Sweeper == "scheduler"

InitInstance ==
  /\ NewDatasource
  /\ calls = 0
  /\ channelsAtStart = {}
  /\ pc = "idle"
  /\ req = <<>>
  /\ qi = 1
  /\ si = 1
  /\ current = <<>>
  /\ processedQueries = Empty
  /\ todo = {}
  /\ batchResult = Empty
  /\ batchCalls = Empty
  /\ response = Empty
  /\ resLog = <<>>
  /\ faults = 0
  /\ resolvedSinceSweep = Empty
  /\ tpc = [t \in Threads |-> "idle"]
  /\ tpath = [t \in Threads |-> <<>>]
  /\ tchan = [t \in Threads |-> {}]
  /\ spc = "idle"
  /\ raced = {}
  /\ fatal = FALSE
  /\ cout = NilContent
  /\ resourceLog = <<>>

\* No URI is being built: the builder's variables at rest, on a build whose
\* int has the width of int64.
NoURI == <<>>

QueryIdle ==
  /\ uin = BaseQuery
  /\ uout = NoURI
  /\ ivals = <<>>
  /\ intBits = WideBits

Init ==
  /\ InitInstance
  /\ cin = SubNested
  /\ QueryIdle

(***************************************************************************)
(* getWebID(path): the cached WebID on a hit; on a miss one GET, which     *)
(* fails ("err") or returns a WebID that is then stored in the cache.      *)
(***************************************************************************)
\* The WebID the remote API has for a path: opaque and stable.
RemoteWebID(path) == <<"W">> \o path

\* The WebID of a resolution that failed.
ResolutionError == <<>>

\* A resolver that never consults the cache.
getWebIDUncached(cache, path) ==
  {[id |-> RemoteWebID(path), get |-> TRUE],
   [id |-> ResolutionError, get |-> TRUE]}

getWebID(cache, path) ==
  IF path \in DOMAIN cache
  THEN {[id |-> cache[path], get |-> FALSE]}
  ELSE {[id |-> RemoteWebID(path), get |-> TRUE],
        [id |-> ResolutionError, get |-> TRUE]}

saveWebID(cache, path, out) ==
  IF out.get /\ out.id # ResolutionError THEN Put(cache, path, out.id) ELSE cache

\* cleanWebIDCache: the sweep removes every entry.
cleanWebIDCache(cache) == Empty

PiProcessedQuery(q, target, id) ==
  [ Label |-> target,
    UID |-> DatasourceUID,
    WebID |-> id,
    IntervalNanoSeconds |-> q.Interval,
    IsPIPoint |-> q.IsPiPoint,
    Streamable |-> isStreamable(q),
    FullTargetPath |-> fullTargetPath(q, target),
    BatchRequest |-> [Method |-> "GET",
                      Resource |-> [uri |-> getQueryBaseURL(q), webid |-> id]],
    Response |-> NilContent ]

\* A loop that gives up the whole query at the first resolution error.
processSegmentAbortsQuery(cur, q, target, out) ==
  IF out.id = ResolutionError THEN <<>>
  ELSE Append(cur, PiProcessedQuery(q, target, out.id))

\* A loop that keeps a segment that did not resolve, with no WebID.
processSegmentKeepsFailed(cur, q, target, out) ==
  Append(cur, PiProcessedQuery(q, target, out.id))

\* One iteration of processQuery's loop over getTargets(): an error of getWebID
\* skips the segment (continue), a WebID appends a PiProcessedQuery.
processSegment(cur, q, target, out) ==
  IF out.id = ResolutionError THEN cur
  ELSE Append(cur, PiProcessedQuery(q, target, out.id))

\* QueryData, entered.  A run-time panic ends a call and the goroutine with
\* it: pc keeps the place of the panic, "panic:getBasePath" (the slice),
\* "panic:UnmarshalJSON" (the index) or "panic:getItems" (the method call on
\* a nil Response).
QueryDataStart ==
  /\ UNCHANGED <<threadVars, functionVars>>
  /\ pc \in {"idle", "returned"}
  /\ ~disposed
  /\ calls < MaxCalls
  /\ \E r \in Requests : req' = r
  /\ calls' = calls + 1
  /\ channelsAtStart' = DOMAIN channelConstruct
  /\ pc' = "process"
  /\ qi' = 1
  /\ si' = 1
  /\ current' = <<>>
  /\ processedQueries' = Empty
  /\ todo' = {}
  /\ batchResult' = Empty
  /\ batchCalls' = Empty
  /\ response' = Empty
  /\ resLog' = <<>>
  /\ faults' = 0
  /\ UNCHANGED <<instanceVars, resolvedSinceSweep>>

ProcessQueryPanics ==
  /\ UNCHANGED <<threadVars, functionVars>>
  /\ pc = "process"
  /\ getBasePathPanics(req[qi])
  /\ pc' = "panic:getBasePath"
  /\ UNCHANGED <<instanceVars, calls, channelsAtStart, req, qi, si, current, processedQueries, todo,
                 batchResult, batchCalls, response, resLog, faults,
                 resolvedSinceSweep>>

ProcessQuerySegment ==
  /\ UNCHANGED <<threadVars, functionVars>>
  /\ pc = "process"
  /\ ~getBasePathPanics(req[qi])
  /\ LET q == req[qi]
         targets == getTargets(q)
         target == targets[si]
         path == fullTargetPath(q, target)
     IN  \E out \in getWebID(webIDCache, path) :
           LET cur == processSegment(current, q, target, out) IN
           /\ faults' = IF out.id = ResolutionError THEN faults + 1 ELSE faults
           /\ faults' <= MaxFaults
           /\ webIDCache' = saveWebID(webIDCache, path, out)
           /\ resLog' = Append(resLog,
                 [q |-> qi, label |-> target, path |-> path, get |-> out.get,
                  id |-> out.id,
                  prior |-> IF path \in DOMAIN resolvedSinceSweep
                            THEN resolvedSinceSweep[path] ELSE ResolutionError])
           /\ resolvedSinceSweep' =
                 IF out.id # ResolutionError
                 THEN Put(resolvedSinceSweep, path, out.id)
                 ELSE resolvedSinceSweep
           /\ IF si < Len(targets)
              THEN /\ si' = si + 1
                   /\ current' = cur
                   /\ UNCHANGED <<qi, processedQueries, pc, todo>>
              ELSE /\ si' = 1
                   /\ current' = <<>>
                   /\ qi' = qi + 1
                   /\ processedQueries' = Put(processedQueries, q.RefID, cur)
                   /\ IF qi = Len(req)
                      THEN /\ pc' = "batch"
                           /\ todo' = DOMAIN processedQueries'
                      ELSE UNCHANGED <<pc, todo>>
  /\ UNCHANGED <<channelConstruct, nextUUID, scheduler, disposed, calls, channelsAtStart, req,
                 batchResult, batchCalls, response>>

(***************************************************************************)
(* batchRequest: one iteration of the range loop over the RefIDs (Go       *)
(* visits the keys of a map in no fixed order).                            *)
(***************************************************************************)
\* A loop that returns at the first failure instead of continuing.
todoAfterFailureAbortsAll(left, r) == {}

\* The RefIDs still to visit after the batch call of r failed: `continue`.
todoAfterFailure(left, r) == left \ {r}

\* batchRequest[fmt.Sprint(i)] = p.BatchRequest: the sub-requests of a
\* RefID, each under its position.
batchSubRequests(pqs) == [i \in 0..(Len(pqs) - 1) |-> pqs[i + 1].BatchRequest]

\* The batch calls issued for r so far in this call of QueryData.
callsOf(r) == IF r \in DOMAIN batchCalls THEN batchCalls[r] ELSE 0

\* What is known of the batch call of r once it is over: the sub-requests
\* sent, the raw response, how the call ended and the decoded tempresponse.
batchOutcome(r, kind, body, temp) ==
  [outcome |-> kind, sent |-> batchSubRequests(processedQueries[r]),
   body |-> body, temp |-> temp]

\* An assignment loop that hands the responses out from the last index down.
assignResponsesReversed(pqs, temp) ==
  [i \in 1..Len(pqs) |-> [pqs[i] EXCEPT !.Response = ContentAt(temp, Len(pqs) - i)]]

\* processedQuery[RefID][i].Response = tempresponse[i].Content, for each i.
assignResponses(pqs, temp) ==
  [i \in 1..Len(pqs) |-> [pqs[i] EXCEPT !.Response = ContentAt(temp, i - 1)]]

BatchLoopEnds(left) ==
  IF left = {}
  THEN /\ pc' = "frames"
       /\ todo' = DOMAIN processedQueries
  ELSE /\ pc' = pc
       /\ todo' = left

\* apiBatchRequest returns an error, or the response is not a JSON object.
BatchRequestFails(r) ==
  /\ UNCHANGED <<threadVars, functionVars>>
  /\ pc = "batch"
  /\ r \in todo
  /\ faults < MaxFaults
  /\ faults' = faults + 1
  /\ \E kind \in {"sendfail", "decodefail"} :
       batchResult' = Put(batchResult, r, batchOutcome(r, kind, <<>>, <<>>))
  /\ batchCalls' = Put(batchCalls, r, callsOf(r) + 1)
  /\ BatchLoopEnds(todoAfterFailure(todo, r))
  /\ UNCHANGED <<instanceVars, calls, channelsAtStart, req, qi, si, current, processedQueries,
                 response, resLog, resolvedSinceSweep>>

BatchRequestAnswered(r) ==
  /\ UNCHANGED <<threadVars, functionVars>>
  /\ pc = "batch"
  /\ r \in todo
  /\ \E body \in Bodies(Len(processedQueries[r])) :
       LET d == Decode(body) IN
       /\ batchCalls' = Put(batchCalls, r, callsOf(r) + 1)
       /\ faults' = faults + BodyFaults(body, Len(processedQueries[r]))
       /\ faults' <= MaxFaults
       /\ CASE d.result = "panic" ->
              /\ pc' = "panic:UnmarshalJSON"
              /\ UNCHANGED <<todo, batchResult, processedQueries>>
         [] d.result = "decodefail" ->
              /\ batchResult' =
                   Put(batchResult, r, batchOutcome(r, "decodefail", body, <<>>))
              /\ BatchLoopEnds(todoAfterFailure(todo, r))
              /\ UNCHANGED processedQueries
         [] OTHER ->
              /\ batchResult' =
                   Put(batchResult, r, batchOutcome(r, "ok", body, d.temp))
              /\ processedQueries' =
                   [processedQueries EXCEPT ![r] = assignResponses(@, d.temp)]
              /\ BatchLoopEnds(todo \ {r})
  /\ UNCHANGED <<instanceVars, calls, channelsAtStart, req, qi, si, current, response, resLog,
                 resolvedSinceSweep>>

(***************************************************************************)
(* processBatchtoFrames: one iteration of the outer range loop, that is    *)
(* all the frames of one RefID.  getItems on a nil Response panics; the    *)
(* frames before it have been built and their channels registered.         *)
(***************************************************************************)
NoChannel == <<>>

\* channelURI := "ds/" + q.UID + "/" + channeluuid.String()
channelURI(uid, uuid) == <<"ds/", uid, "/", uuid>>

StreamChannelConstruct(q) ==
  [WebID |-> q.WebID, IntervalNanoSeconds |-> q.IntervalNanoSeconds]

\* The number of positions of pqs before the first nil Response.
RECURSIVE ConvertiblePrefix(_)
ConvertiblePrefix(pqs) ==
  IF pqs = <<>> \/ Head(pqs).Response.kind = "nil" THEN 0
  ELSE 1 + ConvertiblePrefix(Tail(pqs))

\* convertItemsToDataFrame returns an error for a value it cannot convert.
conversionFails(items) == \E i \in 1..Len(items) : items[i].Value = "bad"

\* A loop that sets up the channel before it looks at the conversion error.
mintsChannelDespiteError(q, convErr) == q.Streamable

\* Whether frame i gets a channel: the conversion succeeded and q.Streamable.
mintsChannel(q, convErr) == ~convErr /\ q.Streamable

Minted(pqs, ce, i) == Cardinality({j \in 1..i : mintsChannel(pqs[j], ce[j])})

Frame(r, q, convErr, uuid) ==
  [ RefID |-> r,
    Name |-> q.Label,
    ExecutedQueryString |-> q.BatchRequest.Resource,
    Channel |-> IF mintsChannel(q, convErr)
                THEN channelURI(q.UID, uuid) ELSE NoChannel,
    items |-> IF convErr THEN <<>> ELSE getItems(q.Response),
    err |-> convErr ]

\* A registry that is rebuilt from the frames of the RefID at hand.
registerChannelsRebuilt(reg, pqs, ce, k, uuid0) ==
  [c \in {uuid0 + Minted(pqs, ce, i) :
            i \in {j \in 1..k : mintsChannel(pqs[j], ce[j])}} |->
     LET i == CHOOSE j \in 1..k :
                mintsChannel(pqs[j], ce[j]) /\ uuid0 + Minted(pqs, ce, j) = c
     IN  StreamChannelConstruct(pqs[i])]

\* d.channelConstruct[channeluuid.String()] = channel, for the minted frames.
registerChannels(reg, pqs, ce, k, uuid0) ==
  [c \in DOMAIN reg \cup {uuid0 + Minted(pqs, ce, i) :
                             i \in {j \in 1..k : mintsChannel(pqs[j], ce[j])}} |->
     IF c \in DOMAIN reg THEN reg[c]
     ELSE LET i == CHOOSE j \in 1..k :
                     mintsChannel(pqs[j], ce[j]) /\ uuid0 + Minted(pqs, ce, j) = c
          IN  StreamChannelConstruct(pqs[i])]

ProcessBatchtoFrames(r) ==
  /\ UNCHANGED <<threadVars, functionVars>>
  /\ pc = "frames"
  /\ r \in todo
  /\ LET pqs == processedQueries[r]
         k == ConvertiblePrefix(pqs)
         ce == [i \in 1..k |-> conversionFails(getItems(pqs[i].Response))]
     IN
           /\ channelConstruct' = registerChannels(channelConstruct, pqs, ce, k, nextUUID)
           /\ nextUUID' = nextUUID + Minted(pqs, ce, k)
           /\ IF k < Len(pqs)
              THEN /\ pc' = "panic:getItems"
                   /\ UNCHANGED <<response, todo>>
              ELSE /\ response' =
                        Put(response, r,
                            [i \in 1..k |->
                               Frame(r, pqs[i], ce[i], nextUUID + Minted(pqs, ce, i))])
                   /\ todo' = todo \ {r}
                   /\ pc' = IF todo' = {} THEN "returned" ELSE pc
  /\ UNCHANGED <<webIDCache, scheduler, disposed, calls, channelsAtStart, req, qi, si,
                 current, processedQueries, batchResult, batchCalls, resLog, faults,
                 resolvedSinceSweep>>

(***************************************************************************)
(* The scheduler's job, every five minutes while the scheduler runs, and   *)
(* Dispose.                                                                *)
(***************************************************************************)
CleanWebIDCache ==
  /\ UNCHANGED <<threadVars, functionVars>>
  /\ scheduler = "running"
  /\ webIDCache' = cleanWebIDCache(webIDCache)
  /\ resolvedSinceSweep' = Empty
  /\ UNCHANGED <<channelConstruct, nextUUID, scheduler, disposed, calls, channelsAtStart, pc, req,
                 qi, si, current, processedQueries, todo, batchResult, batchCalls,
                 response,
                 resLog, faults>>

\* The scheduler after Dispose: Dispose closes the idle HTTP connections only.
schedulerAfterDispose(sch) == sch

Dispose ==
  /\ UNCHANGED <<threadVars, functionVars>>
  /\ ~disposed
  /\ disposed' = TRUE
  /\ scheduler' = schedulerAfterDispose(scheduler)
  /\ UNCHANGED <<webIDCache, channelConstruct, nextUUID, calls, channelsAtStart, pc, req,
                 qi, si, current, processedQueries, todo, batchResult, batchCalls,
                 response,
                 resLog, faults, resolvedSinceSweep>>

Next ==
  \/ QueryDataStart
  \/ ProcessQueryPanics
  \/ ProcessQuerySegment
  \/ \E r \in RefIDs : BatchRequestFails(r)
  \/ \E r \in RefIDs : BatchRequestAnswered(r)
  \/ \E r \in RefIDs : ProcessBatchtoFrames(r)
  \/ CleanWebIDCache
  \/ Dispose

Spec == Init /\ [][Next]_vars

(***************************************************************************)
(* Concurrent calls.  The host runs QueryData on one goroutine per request *)
(* and the scheduler runs cleanWebIDCache on its own; webIDCache and       *)
(* channelConstruct are plain Go maps and no mutex of Datasource is held   *)
(* around them.  A map access takes time: it is entered and left in two    *)
(* steps.  Each thread runs a call with one streamable query of one path   *)
(* segment: getWebID (lookup, GET, insert), the batch call, then the       *)
(* channel registration of processBatchtoFrames.                           *)
(*                                                                         *)
(* Two accesses to one map that overlap, one of them a write, are a data   *)
(* race: the raced access has its effect, or not, or the runtime detects   *)
(* the concurrent map access and ends the process.                         *)
(***************************************************************************)
ConcPaths == {fullTargetPath(QStream, <<"x">>), fullTargetPath(QStream, <<"y">>)}

\* The goroutines inside an access to webIDCache, and those writing it.
InCache == {t \in Threads : tpc[t] \in {"inLookup", "inInsert"}}
             \cup (IF spc = "inSweep" THEN {Sweeper} ELSE {})
CacheWriters == {t \in Threads : tpc[t] = "inInsert"}
                  \cup (IF spc = "inSweep" THEN {Sweeper} ELSE {})

\* The goroutines inside the write to channelConstruct.
InRegistry == {t \in Threads : tpc[t] = "inRegister"}

\* The raced goroutines once g has entered a map where `others` are, g or one
\* of them writing.
racedAfterEnter(g, others, conflict) ==
  IF conflict /\ others # {} THEN raced \cup {g} \cup others ELSE raced

ConcStart(t) ==
  /\ ~fatal
  /\ tpc[t] = "idle"
  /\ ~disposed
  /\ calls < MaxCalls
  /\ calls' = calls + 1
  /\ \E p \in ConcPaths : tpath' = [tpath EXCEPT ![t] = p]
  /\ tchan' = [tchan EXCEPT ![t] = {}]
  /\ tpc' = [tpc EXCEPT ![t] = "lookup"]
  /\ UNCHANGED <<instanceVars, callVars, resolvedSinceSweep, spc, raced, fatal,
                 functionVars>>

\* getWebID reads webIDCache[path].
LookupEnter(t) ==
  /\ ~fatal
  /\ tpc[t] = "lookup"
  /\ tpc' = [tpc EXCEPT ![t] = "inLookup"]
  /\ raced' = racedAfterEnter(t, CacheWriters, TRUE)
  /\ UNCHANGED <<instanceVars, calls, callVars, resolvedSinceSweep, tpath, tchan,
                 spc, fatal, functionVars>>

LookupExit(t) ==
  /\ ~fatal
  /\ tpc[t] = "inLookup"
  /\ raced' = raced \ {t}
  /\ \/ /\ tpc' = [tpc EXCEPT ![t] =
                     IF tpath[t] \in DOMAIN webIDCache THEN "batch" ELSE "get"]
        /\ UNCHANGED fatal
     \/ /\ t \in raced
        /\ fatal' = TRUE
        /\ UNCHANGED tpc
  /\ UNCHANGED <<instanceVars, calls, callVars, resolvedSinceSweep, tpath, tchan,
                 spc, functionVars>>

\* The GET of a cache miss: an error ends the segment and the call has no
\* frame to build.
ResolveGet(t) ==
  /\ ~fatal
  /\ tpc[t] = "get"
  /\ \E ok \in BOOLEAN :
       tpc' = [tpc EXCEPT ![t] = IF ok THEN "insert" ELSE "done"]
  /\ UNCHANGED <<instanceVars, calls, callVars, resolvedSinceSweep, tpath, tchan,
                 spc, raced, fatal, functionVars>>

\* getWebID stores webIDCache[path].
InsertEnter(t) ==
  /\ ~fatal
  /\ tpc[t] = "insert"
  /\ tpc' = [tpc EXCEPT ![t] = "inInsert"]
  /\ raced' = racedAfterEnter(t, InCache, TRUE)
  /\ UNCHANGED <<instanceVars, calls, callVars, resolvedSinceSweep, tpath, tchan,
                 spc, fatal, functionVars>>

InsertExit(t) ==
  /\ ~fatal
  /\ tpc[t] = "inInsert"
  /\ raced' = raced \ {t}
  /\ \/ /\ webIDCache' = Put(webIDCache, tpath[t], RemoteWebID(tpath[t]))
        /\ tpc' = [tpc EXCEPT ![t] = "batch"]
        /\ UNCHANGED fatal
     \/ /\ t \in raced
        /\ tpc' = [tpc EXCEPT ![t] = "batch"]
        /\ UNCHANGED <<webIDCache, fatal>>
     \/ /\ t \in raced
        /\ fatal' = TRUE
        /\ UNCHANGED <<webIDCache, tpc>>
  /\ UNCHANGED <<channelConstruct, nextUUID, scheduler, disposed, calls, callVars,
                 resolvedSinceSweep, tpath, tchan, spc, functionVars>>

\* batchRequest and the conversion of the response: with data the frame of
\* the streamable query registers a channel, otherwise the call ends.
ConcBatch(t) ==
  /\ ~fatal
  /\ tpc[t] = "batch"
  /\ \E ok \in BOOLEAN :
       tpc' = [tpc EXCEPT ![t] = IF ok THEN "register" ELSE "done"]
  /\ UNCHANGED <<instanceVars, calls, callVars, resolvedSinceSweep, tpath, tchan,
                 spc, raced, fatal, functionVars>>

\* channeluuid := uuid.New(), then d.channelConstruct[channeluuid] = channel.
RegisterEnter(t) ==
  /\ ~fatal
  /\ tpc[t] = "register"
  /\ tpc' = [tpc EXCEPT ![t] = "inRegister"]
  /\ tchan' = [tchan EXCEPT ![t] = {nextUUID}]
  /\ nextUUID' = nextUUID + 1
  /\ raced' = racedAfterEnter(t, InRegistry, TRUE)
  /\ UNCHANGED <<webIDCache, channelConstruct, scheduler, disposed, calls,
                 callVars, resolvedSinceSweep, tpath, spc, fatal, functionVars>>

RegisterExit(t) ==
  /\ ~fatal
  /\ tpc[t] = "inRegister"
  /\ raced' = raced \ {t}
  /\ \/ /\ channelConstruct' =
             [c \in DOMAIN channelConstruct \cup tchan[t] |->
                IF c \in tchan[t]
                THEN [WebID |-> RemoteWebID(tpath[t]),
                      IntervalNanoSeconds |-> QStream.Interval]
                ELSE channelConstruct[c]]
        /\ tpc' = [tpc EXCEPT ![t] = "done"]
        /\ UNCHANGED fatal
     \/ /\ t \in raced
        /\ tpc' = [tpc EXCEPT ![t] = "done"]
        /\ UNCHANGED <<channelConstruct, fatal>>
     \/ /\ t \in raced
        /\ fatal' = TRUE
        /\ UNCHANGED <<channelConstruct, tpc>>
  /\ UNCHANGED <<webIDCache, nextUUID, scheduler, disposed, calls, callVars,
                 resolvedSinceSweep, tpath, tchan, spc, functionVars>>

ConcReturn(t) ==
  /\ ~fatal
  /\ tpc[t] = "done"
  /\ tpc' = [tpc EXCEPT ![t] = "idle"]
  /\ UNCHANGED <<instanceVars, calls, callVars, resolvedSinceSweep, tpath, tchan,
                 spc, raced, fatal, functionVars>>

\* The scheduler's goroutine runs cleanWebIDCache(webIDCache).
SweepEnter ==
  /\ ~fatal
  /\ scheduler = "running"
  /\ spc = "idle"
  /\ spc' = "inSweep"
  /\ raced' = racedAfterEnter(Sweeper, InCache, TRUE)
  /\ UNCHANGED <<instanceVars, calls, callVars, resolvedSinceSweep, tpc, tpath,
                 tchan, fatal, functionVars>>

SweepExit ==
  /\ ~fatal
  /\ spc = "inSweep"
  /\ raced' = raced \ {Sweeper}
  /\ \/ /\ webIDCache' = cleanWebIDCache(webIDCache)
        /\ spc' = "idle"
        /\ UNCHANGED fatal
     \/ /\ Sweeper \in raced
        /\ spc' = "idle"
        /\ UNCHANGED <<webIDCache, fatal>>
     \/ /\ Sweeper \in raced
        /\ fatal' = TRUE
        /\ UNCHANGED <<webIDCache, spc>>
  /\ UNCHANGED <<channelConstruct, nextUUID, scheduler, disposed, calls, callVars,
                 resolvedSinceSweep, tpc, tpath, tchan, functionVars>>

NextConcurrent ==
  \/ \E t \in Threads : ConcStart(t)
  \/ \E t \in Threads : LookupEnter(t)
  \/ \E t \in Threads : LookupExit(t)
  \/ \E t \in Threads : ResolveGet(t)
  \/ \E t \in Threads : InsertEnter(t)
  \/ \E t \in Threads : InsertExit(t)
  \/ \E t \in Threads : ConcBatch(t)
  \/ \E t \in Threads : RegisterEnter(t)
  \/ \E t \in Threads : RegisterExit(t)
  \/ \E t \in Threads : ConcReturn(t)
  \/ SweepEnter
  \/ SweepExit

SpecConcurrent == Init /\ [][NextConcurrent]_vars

(***************************************************************************)
(* The URI builder on its own: getQueryBaseURL and getIntervalTime are     *)
(* called on a Query of any mode, on a build of either width of int.       *)
(***************************************************************************)
MaxIntervalCalls == 2

Expressions == {<<>>, <<"a", "+", "b">>, <<"a", " ", "/", "&", "%">>}

URIQueries ==
  {[BaseQuery EXCEPT !.Expression = e, !.SummaryBasis = sb,
                     !.SummaryTypes = st, !.SummaryInterval = si_,
                     !.Interpolate = ip, !.RecordedValues = rv,
                     !.IntervalMs = ms, !.Interval = iv,
                     !.PiMaxDataPoints = mp] :
     e \in Expressions,
     sb \in {<<>>, <<"T">>},
     st \in {<<>>, <<<<"M">>>>, <<<<"M">>, <<"N">>>>},
     si_ \in {<<>>, <<"1", "M">>},
     ip \in BOOLEAN, rv \in BOOLEAN,
     ms \in {0, 5}, iv \in {0, 100, 1000},
     mp \in {0, 7}}

InitQuery ==
  /\ InitInstance
  /\ cin = SubNested
  /\ uin \in URIQueries
  /\ uout = NoURI
  /\ ivals = <<>>
  /\ intBits \in {NarrowBits, WideBits}

BuildURI ==
  /\ uout = NoURI
  /\ uout' = getQueryBaseURL(uin)
  /\ UNCHANGED <<instanceVars, calls, callVars, resolvedSinceSweep, threadVars,
                 cin, cout, uin, ivals, intBits, resourceLog>>

\* getIntervalTime has a pointer receiver and assigns only its local.
queryAfterGetIntervalTime(q) == q

GetIntervalTime ==
  /\ Len(ivals) < MaxIntervalCalls
  /\ ivals' = Append(ivals, getIntervalTime(uin))
  /\ uin' = queryAfterGetIntervalTime(uin)
  /\ UNCHANGED <<instanceVars, calls, callVars, resolvedSinceSweep, threadVars,
                 cin, cout, uout, intBits, resourceLog>>

NextQuery ==
  \/ BuildURI
  \/ GetIntervalTime

SpecQuery == InitQuery /\ [][NextQuery]_vars

(***************************************************************************)
(* The classifier on its own: one sub-response of any shape is handed to   *)
(* UnmarshalJSON.                                                          *)
(***************************************************************************)
InitClassify ==
  /\ InitInstance
  /\ cin \in SubResponses
  /\ QueryIdle

ClassifyResponse ==
  /\ cout = NilContent
  /\ cout' = UnmarshalJSON(cin)
  /\ UNCHANGED <<instanceVars, calls, callVars, resolvedSinceSweep, threadVars, cin,
                 uin, uout, ivals, intBits, resourceLog>>

SpecClassify == InitClassify /\ [][ClassifyResponse]_vars

(***************************************************************************)
(* CallResource: the resource proxy.  The request's Path is matched        *)
(* against the allowed base paths and its URL is fetched from the remote   *)
(* API with one GET.                                                       *)
(***************************************************************************)
MaxResourceCalls == 2

StatusForbidden == 403

allowedBasePaths ==
  << "/assetdatabases", "/elements", "/assetservers", "/points",
     "/attributes", "/dataservers", "/annotations" >>

\* strings.HasPrefix
HasPrefix(s, prefix) ==
  Len(s) >= Len(prefix) /\ SubSeq(s, 1, Len(prefix)) = prefix

\* var isAllowed = true
isAllowedInitially == TRUE

\* isAllowed after the loop over allowedBasePaths: the loop can only set it.
isAllowed(path) ==
  isAllowedInitially
    \/ \E i \in DOMAIN allowedBasePaths : HasPrefix(path, allowedBasePaths[i])

\* The requests the host hands over: a path and the URL (the path and the
\* query string) of one resource call.
ResourcePaths ==
  { "/elements", "/points/F1", "/assetdatabases", "/element", "elements",
    "/batch", "/system/configuration", "" }

ResourceRequests ==
  {[Path |-> p, URL |-> p \o qs] : p \in ResourcePaths, qs \in {"", "?path=x"}}

\* apiGet returns the body or an error.
apiGetOutcomes == {"ok", "err"}

NoBody == <<>>

\* What one call does: the GETs it issues, the responses it sends and
\* whether it returns an error.
callResource(rq, out) ==
  IF ~isAllowed(rq.Path)
  THEN [req |-> rq, gets |-> <<>>,
        sent |-> <<[Status |-> StatusForbidden, Body |-> NoBody]>>,
        err |-> FALSE]
  ELSE IF out = "err"
  THEN [req |-> rq, gets |-> <<rq.URL>>, sent |-> <<>>, err |-> TRUE]
  ELSE [req |-> rq, gets |-> <<rq.URL>>,
        sent |-> <<[Status |-> StatusOK, Body |-> "r"]>>,
        err |-> FALSE]

CallResource ==
  /\ Len(resourceLog) < MaxResourceCalls
  /\ \E rq \in ResourceRequests, out \in apiGetOutcomes :
       resourceLog' = Append(resourceLog, callResource(rq, out))
  /\ UNCHANGED <<instanceVars, calls, callVars, resolvedSinceSweep, threadVars,
                 cin, cout, uin, uout, ivals, intBits>>

SpecResource == Init /\ [][CallResource]_vars

(***************************************************************************)
(* Properties of the query pipeline.                                       *)
(***************************************************************************)
\* The RefIDs of the request in flight, and the last query under a RefID (the
\* one whose result QueryData keeps in its map).
RequestRefIDs == {req[i].RefID : i \in 1..Len(req)}

LastQuery(r, n) ==
  CHOOSE i \in 1..n :
    /\ req[i].RefID = r
    /\ \A j \in 1..n : req[j].RefID = r => j <= i

\* The resolutions logged for query i, in order.
RECURSIVE LogOf(_, _)
LogOf(log, i) ==
  IF log = <<>> THEN <<>>
  ELSE IF Head(log).q = i THEN <<Head(log)>> \o LogOf(Tail(log), i)
  ELSE LogOf(Tail(log), i)

\* C1: whatever sub-failures occur (a segment that does not resolve, a batch
\* call that fails to send or to decode, a missing sub-response index, a
\* non-200 or malformed sub-response), QueryData does not crash: no call ends
\* in a panic while decoding the batch response or building the frames.
C1_QueryDataNeverCrashes ==
  pc \notin {"panic:UnmarshalJSON", "panic:getItems"}

\* C2: the number of frames returned for a RefID equals the number of path
\* segments of its query, whether or not each segment resolved.
C2_OneFramePerSegment ==
  pc = "returned" =>
    \A r \in DOMAIN response :
      Len(response[r]) = Len(getTargets(req[LastQuery(r, Len(req))]))

\* C3: once QueryData has ended, every RefID of the request is a key of the
\* response, also when its segments did not resolve or its batch call failed.
C3_ResponseTotal ==
  pc \in {"returned", "panic:getItems"} =>
    RequestRefIDs \subseteq DOMAIN response

\* The labels of the segments of a log that resolved, in order.
RECURSIVE ResolvedLabels(_)
ResolvedLabels(log) ==
  IF log = <<>> THEN <<>>
  ELSE IF Head(log).id = ResolutionError THEN ResolvedLabels(Tail(log))
  ELSE <<Head(log).label>> \o ResolvedLabels(Tail(log))

\* C2, as the code has it: when QueryData returns, the frames of a RefID are
\* one per path segment of its query that resolved, in segment order and
\* named after the segment; a segment that did not resolve has no frame, and
\* a segment whose sub-response was classified Error has a frame without
\* items.
C2_OneFramePerResolvedSegment ==
  pc = "returned" =>
    \A r \in DOMAIN response :
      LET labels == ResolvedLabels(LogOf(resLog, LastQuery(r, Len(req)))) IN
      /\ [i \in 1..Len(response[r]) |-> response[r][i].Name] = labels
      /\ \A i \in 1..Len(response[r]) :
           processedQueries[r][i].Response.kind = "Error" =>
             response[r][i].items = <<>>

\* A call returned, and of the two segments of a query one resolved and has
\* its frame and the other did not and has none.
C2_Witness ==
  /\ pc = "returned"
  /\ \E r \in DOMAIN response :
       LET i == LastQuery(r, Len(req)) IN
       /\ Len(getTargets(req[i])) = 2
       /\ Len(response[r]) = 1
       /\ \E k \in 1..Len(resLog) :
            resLog[k].q = i /\ resLog[k].id = ResolutionError

AllNil(pqs) == \A i \in 1..Len(pqs) : pqs[i].Response = NilContent

\* C4: in batchRequest, a RefID whose batch call failed to send or to decode
\* keeps every ProcessedQuery without response content, a RefID not yet
\* visited is untouched, every RefID is visited whatever happened to the
\* others, and a RefID whose call succeeded has entry i assigned the
\* sub-response under index i of its own call.
C4_BatchFailureIsolated ==
  /\ \A r \in DOMAIN batchResult :
       /\ r \in DOMAIN processedQueries
       /\ batchResult[r].outcome \in {"sendfail", "decodefail"} =>
            AllNil(processedQueries[r])
       /\ batchResult[r].outcome = "ok" =>
            \A i \in 1..Len(processedQueries[r]) :
              processedQueries[r][i].Response =
                ContentAt(batchResult[r].temp, i - 1)
  /\ pc = "batch" => \A r \in todo : AllNil(processedQueries[r])
  /\ pc \in {"frames", "returned"} =>
       DOMAIN batchResult = DOMAIN processedQueries

C4_Witness ==
  /\ pc = "frames"
  /\ \E r1, r2 \in DOMAIN batchResult :
       /\ batchResult[r1].outcome \in {"sendfail", "decodefail"}
       /\ Len(processedQueries[r1]) > 0
       /\ batchResult[r2].outcome = "ok"
       /\ Len(processedQueries[r2]) > 0
       /\ \A i \in 1..Len(processedQueries[r2]) :
            processedQueries[r2][i].Response.kind = "Nested"

\* The ProcessedQuery entries that the resolutions of query q call for: one
\* per resolved segment, in segment order.
RECURSIVE Expected(_, _)
Expected(q, log) ==
  IF log = <<>> THEN <<>>
  ELSE IF Head(log).id = ResolutionError THEN Expected(q, Tail(log))
  ELSE <<PiProcessedQuery(q, Head(log).label, Head(log).id)>>
       \o Expected(q, Tail(log))

Unanswered(pqs) == [i \in 1..Len(pqs) |-> [pqs[i] EXCEPT !.Response = NilContent]]

\* C5: a resolution error aborts only its segment.  Every segment of every
\* processed query is attempted once, in order, and the query's
\* ProcessedQuery list is exactly one entry per resolved segment, in segment
\* order, with that segment's WebID and sub-request, whatever happened to the
\* other segments and to the other queries.
C5_ResolutionErrorLocal ==
  /\ \A i \in 1..(qi - 1) :
       LET l == LogOf(resLog, i) IN
       /\ [k \in 1..Len(l) |-> l[k].label] = getTargets(req[i])
       /\ i = LastQuery(req[i].RefID, qi - 1) =>
            Unanswered(processedQueries[req[i].RefID]) = Expected(req[i], l)
  /\ pc = "process" /\ ~getBasePathPanics(req[qi]) =>
       current = Expected(req[qi], LogOf(resLog, qi))

C5_Witness ==
  /\ pc = "batch"
  /\ Len(req) = 2
  /\ req[1].RefID # req[2].RefID
  /\ \E a, b \in 1..Len(resLog) :
       /\ a < b
       /\ resLog[a].q = 1 /\ resLog[a].id = ResolutionError
       /\ resLog[b].q = 1 /\ resLog[b].id # ResolutionError
  /\ Len(processedQueries[req[1].RefID]) = 1
  /\ Len(processedQueries[req[2].RefID]) > 0

\* C6: a resolution of a path that was resolved since the last sweep issues
\* no GET and returns the identifier of that earlier resolution; a resolution
\* of a path not resolved since the last sweep issues a GET.
C6_CacheRoundTrip ==
  \A k \in 1..Len(resLog) :
    IF resLog[k].prior # ResolutionError
    THEN ~resLog[k].get /\ resLog[k].id = resLog[k].prior
    ELSE resLog[k].get

\* One call resolves the same path three times: a GET, a hit, and after a
\* sweep a GET again.
C6_Witness ==
  \E a, b, c \in 1..Len(resLog) :
    /\ a < b /\ b < c
    /\ resLog[a].path = resLog[b].path /\ resLog[b].path = resLog[c].path
    /\ resLog[a].get /\ resLog[a].id # ResolutionError
    /\ ~resLog[b].get
    /\ resLog[c].get /\ resLog[c].id = resLog[a].id

\* C9: the eviction timer is cancelled on disposal: once the instance is
\* disposed no sweep clears its cache.
C9_NoSweepAfterDispose ==
  [][disposed => ~(webIDCache # Empty /\ webIDCache' = Empty)]_vars

\* C12: demultiplexing is positional.  Sub-request i of a RefID is sent under
\* index i, and after a batch call that succeeded the ProcessedQuery at
\* position i holds the classified content of the member of the raw response
\* keyed i, wherever that member stands in the raw JSON object, and no
\* content when the response has no member keyed i.
C12_PositionalDemux ==
  \A r \in DOMAIN batchResult :
    LET b == batchResult[r]
        pqs == processedQueries[r]
    IN  /\ DOMAIN b.sent = 0..(Len(pqs) - 1)
        /\ \A i \in 1..Len(pqs) : b.sent[i - 1] = pqs[i].BatchRequest
        /\ b.outcome = "ok" =>
             \A i \in 1..Len(pqs) :
               /\ \A k \in 1..Len(b.body) :
                    b.body[k].idx = i - 1 =>
                      pqs[i].Response = UnmarshalJSON(b.body[k].sub)
               /\ (\A k \in 1..Len(b.body) : b.body[k].idx # i - 1) =>
                    pqs[i].Response = NilContent

\* A batch call of two sub-requests succeeded whose raw response has index 1
\* before index 0, with different contents.
C12_Witness ==
  \E r \in DOMAIN batchResult :
    LET b == batchResult[r] IN
    /\ b.outcome = "ok"
    /\ Len(processedQueries[r]) = 2
    /\ Len(b.body) = 2
    /\ b.body[1].idx = 1
    /\ b.body[2].idx = 0
    /\ processedQueries[r][1].Response.kind = "Error"
    /\ processedQueries[r][2].Response.kind = "Nested"

\* C13: no retry within one call of QueryData.  No RefID has more than one
\* batch call and no query more resolutions than it has segments; and once the
\* batch phase is over, whatever the outcomes, each RefID of the request has
\* had exactly one batch call.
C13_NoRetry ==
  /\ \A r \in DOMAIN batchCalls : batchCalls[r] = 1
  /\ \A i \in 1..Len(req) :
       Len(LogOf(resLog, i)) <= Len(getTargets(req[i]))
  /\ pc \in {"frames", "returned", "panic:getItems", "panic:UnmarshalJSON"} =>
       DOMAIN batchCalls = RequestRefIDs

\* The frames of r, in the response after a step, of the streamable
\* ProcessedQuery entries, and those of them whose items were converted.
StreamableFrames(r) ==
  {i \in 1..Len(response'[r]) : processedQueries[r][i].Streamable}

ConvertedStreamableFrames(r) ==
  {i \in StreamableFrames(r) : ~response'[r][i].err}

\* The step that builds the frames of r mints one channel for each frame in F
\* and for no other: a registry entry under an id that was not in the
\* registry, holding the WebID and the interval of the frame's
\* ProcessedQuery, and the address ds/<uid>/<id> in the frame.
ChannelsMinted(r, F) ==
  LET fs == response'[r]
      fresh == DOMAIN channelConstruct' \ DOMAIN channelConstruct
  IN  /\ \A i \in F :
           \E c \in fresh :
             /\ fs[i].Channel = <<"ds/", DatasourceUID, "/", c>>
             /\ channelConstruct'[c] =
                  [WebID |-> processedQueries[r][i].WebID,
                   IntervalNanoSeconds |->
                     processedQueries[r][i].IntervalNanoSeconds]
      /\ \A i, j \in F : fs[i].Channel = fs[j].Channel => i = j
      /\ Cardinality(fresh) = Cardinality(F)
      /\ \A i \in (1..Len(fs)) \ F : fs[i].Channel = NoChannel

\* C14: every frame produced for a streamable ProcessedQuery mints a new
\* channel: one new registry entry {WebID, interval} under a fresh id, and
\* the address ds/<uid>/<id> in the frame; nothing is deduplicated.
C14_EveryStreamableFrameMints ==
  [][\A r \in DOMAIN response' \ DOMAIN response :
       ChannelsMinted(r, StreamableFrames(r))]_vars

\* C14, as the code has it: every frame of a streamable ProcessedQuery whose
\* items were converted without error mints a new channel; a frame whose
\* conversion returned an error is produced without a channel and without a
\* registry entry.
C14_ConvertedStreamableFrameMints ==
  [][\A r \in DOMAIN response' \ DOMAIN response :
       ChannelsMinted(r, ConvertedStreamableFrames(r))]_vars

\* The same streamable query has run in two calls and the registry has two
\* entries for it, one per frame.
C14_Witness ==
  /\ calls = 2
  /\ pc = "returned"
  /\ \E c1, c2 \in DOMAIN channelConstruct :
       /\ c1 # c2
       /\ channelConstruct[c1] = channelConstruct[c2]
  /\ \E r \in DOMAIN response :
       \E i \in 1..Len(response[r]) :
         \E c \in DOMAIN channelConstruct :
           response[r][i].Channel = <<"ds/", DatasourceUID, "/", c>>

\* C15: the registry is append-only for the pipeline: no step removes an
\* entry or changes the WebID or the interval of one.
C15_RegistryAppendOnly ==
  [][\A c \in DOMAIN channelConstruct :
       /\ c \in DOMAIN channelConstruct'
       /\ channelConstruct'[c] = channelConstruct[c]]_vars

\* A second call has registered its channels next to those of the first.
C15_Witness ==
  /\ calls = 2
  /\ pc = "frames"
  /\ response # Empty
  /\ Cardinality(DOMAIN channelConstruct) >= 2

\* C19: a target Base;Seg1;...;SegN whose segments all resolve expands to N
\* ProcessedQuery entries, in order, with the full target paths Base|Segi,
\* or Base\Segi when the target is a PI point.
C19_PathExpansion ==
  \A r \in DOMAIN processedQueries :
    LET q == req[LastQuery(r, qi - 1)]
        l == LogOf(resLog, LastQuery(r, qi - 1))
        parts == Split(q.Target, ";")
        pqs == processedQueries[r]
    IN  (\A k \in 1..Len(l) : l[k].id # ResolutionError) =>
          /\ Len(parts) >= 2
          /\ Len(pqs) = Len(parts) - 1
          /\ \A k \in 1..Len(pqs) :
               pqs[k].FullTargetPath =
                 parts[1] \o (IF q.IsPiPoint THEN <<"\\">> ELSE <<"|">>)
                          \o parts[k + 1]

\* The target b;x;y has expanded to b|x and b|y.
C19_Witness ==
  \E r \in DOMAIN processedQueries :
    /\ req[LastQuery(r, qi - 1)].Target = <<"b", ";", "x", ";", "y">>
    /\ ~req[LastQuery(r, qi - 1)].IsPiPoint
    /\ Len(processedQueries[r]) = 2
    /\ processedQueries[r][1].FullTargetPath = <<"b", "|", "x">>
    /\ processedQueries[r][2].FullTargetPath = <<"b", "|", "y">>

\* The registry entries the call in flight has added, the frames of a
\* response as (RefID, position) pairs, and the frames the call in flight has
\* handed to its caller: those of its response once QueryData has returned.
ChannelsAdded == DOMAIN channelConstruct \ channelsAtStart

FramesOf(resp) ==
  UNION {{<<r, i>> : i \in 1..Len(resp[r])} : r \in DOMAIN resp}

FramesReturned == IF pc = "returned" THEN FramesOf(response) ELSE {}

CallOver ==
  pc \in {"returned", "panic:getBasePath", "panic:UnmarshalJSON", "panic:getItems"}

\* C21: a channel is created only for streamable results: a frame whose query
\* has streaming disabled, or is an expression, or whose items failed to
\* convert carries no channel address, and once a call is over the number of
\* registry entries it added equals the number of frames it returned with a
\* channel address.
C21_ChannelsOnlyForStreamable ==
  /\ \A x \in FramesOf(response) :
       LET q == req[LastQuery(x[1], Len(req))]
           f == response[x[1]][x[2]]
       IN  (~q.EnableStreaming \/ q.Expression # <<>> \/ f.err) =>
             f.Channel = NoChannel
  /\ CallOver =>
       Cardinality(ChannelsAdded) =
         Cardinality({x \in FramesReturned :
                        response[x[1]][x[2]].Channel # NoChannel})

\* C23: processQuery completes without crashing for every target string: a
\* target with no ";" (the empty target too) does not end the call, and for
\* every query processQuery has gone through, the base path is the part of
\* the target before the first ";" and the segments are the ";"-separated
\* parts after it, each resolved under the base path joined to it.
C23_ProcessQueryNeverCrashes ==
  /\ pc # "panic:getBasePath"
  /\ \A i \in 1..Len(req) :
       i < qi =>
         LET q == req[i]
             parts == Split(q.Target, ";")
             l == LogOf(resLog, i)
         IN  /\ Len(l) = Len(parts) - 1
             /\ \A k \in 1..Len(l) :
                  /\ l[k].label = parts[k + 1]
                  /\ l[k].path =
                       parts[1] \o (IF q.IsPiPoint THEN <<"\\">> ELSE <<"|">>)
                                \o parts[k + 1]

(***************************************************************************)
(* Properties of the concurrent calls.                                     *)
(***************************************************************************)
\* C7: the WebID cache is guarded by mutual exclusion: no sweep overlaps a
\* lookup or an insert of a request thread, and no two request threads insert
\* at the same time.
C7_CacheMutualExclusion ==
  /\ ~(spc = "inSweep" /\ \E t \in Threads : tpc[t] \in {"inLookup", "inInsert"})
  /\ \A t1, t2 \in Threads :
       tpc[t1] = "inInsert" /\ tpc[t2] = "inInsert" => t1 = t2

\* C8: the channel registry is lock-guarded: the registry writes of two
\* concurrent calls never overlap, and the entry a call has written is in the
\* registry.
C8_RegistryLockGuarded ==
  /\ \A t1, t2 \in Threads :
       tpc[t1] = "inRegister" /\ tpc[t2] = "inRegister" => t1 = t2
  /\ \A t \in Threads :
       tpc[t] = "done" => tchan[t] \subseteq DOMAIN channelConstruct

(***************************************************************************)
(* Property of the classifier.                                             *)
(***************************************************************************)
HasFirstItem(c) ==
  c.isObj /\ c.Items = "list" /\ Len(c.list) > 0 /\ c.list[1].isObj

\* C10: a sub-response with a status other than 200 is classified Error
\* whatever its Items; otherwise one whose Content.Items[0] lacks a WebId is
\* FlatItems (items Content.Items, units Content.UnitsAbbreviation) and one
\* whose Content.Items[0] has a WebId is NestedItems (items
\* Content.Items[0].Items, units Content.Items[0].UnitsAbbreviation); every
\* input gets exactly one of the three variants.
C10_Classification ==
  cout # NilContent =>
    /\ cout.kind \in {"Error", "Flat", "Nested"}
    /\ cin.Status # StatusOK => cout.kind = "Error"
    /\ (cin.Status = StatusOK /\ HasFirstItem(cin.Content)
           /\ cin.Content.list[1].WebId = "absent") =>
         /\ cout.kind = "Flat"
         /\ cout.items = FlatItems(cin.Content)
         /\ cout.units = cin.Content.Units
    /\ (cin.Status = StatusOK /\ HasFirstItem(cin.Content)
           /\ cin.Content.list[1].WebId # "absent") =>
         /\ cout.kind = "Nested"
         /\ cout.items = cin.Content.list[1].sub
         /\ cout.units = cin.Content.list[1].Units

\* C11: a sub-response with status 200 whose Content.Items is missing, not a
\* list, an empty list, or a list whose first element is not an object is
\* classified Error with the generic message, empty units and no items: the
\* classifier neither panics nor returns an error.
C11_MalformedItemsIsError ==
  (/\ cout # NilContent
   /\ cin.Status = StatusOK
   /\ cin.Content.isObj
   /\ \/ cin.Content.Items # "list"
      \/ Len(cin.Content.list) = 0
      \/ ~cin.Content.list[1].isObj) =>
    /\ cout = createPiBatchDataError(GenericMessage)
    /\ getUnits(cout) = ""
    /\ getItems(cout) = <<>>

(***************************************************************************)
(* Properties of the URI builder.                                          *)
(***************************************************************************)
\* The names of the components of a URI, and how often a name occurs.
Names(uri) == [k \in 1..Len(uri) |-> uri[k].name]

Count(uri, names) == Cardinality({k \in 1..Len(uri) : uri[k].name \in names})

ModeNames == {"/plot", "/interpolated", "/recorded", "/summary"}

SummaryParams == {"&summaryType=", "&summaryBasis=", "&summaryDuration="}

\* A summary is configured: a basis and at least one type.
SummaryConfigured(q) == q.SummaryBasis # <<>> /\ q.SummaryTypes # <<>>

\* url.QueryUnescape: "+" is a space and %XX the character of that code.
RECURSIVE QueryUnescape(_)
QueryUnescape(e) ==
  IF e = <<>> THEN <<>>
  ELSE IF Head(e) = "+" THEN <<" ">> \o QueryUnescape(Tail(e))
  ELSE IF Head(e) = "%" /\ Len(e) >= 3
  THEN LET code == <<e[2], e[3]>>
           c == CASE code = <<"2", "B">> -> "+"
                  [] code = <<"2", "F">> -> "/"
                  [] code = <<"2", "6">> -> "&"
                  [] code = <<"2", "5">> -> "%"
                  [] code = <<"3", "D">> -> "="
                  [] code = <<"3", "B">> -> ";"
                  [] OTHER -> "?"
       IN  <<c>> \o QueryUnescape(SubSeq(e, 4, Len(e)))
  ELSE <<Head(e)>> \o QueryUnescape(Tail(e))

\* e is the escaped text of s: no reserved character is left in it, and it
\* unescapes to s.
IsEscapeOf(e, s) ==
  /\ \A k \in 1..Len(e) : e[k] \notin {" ", "/", "&", "=", ";"}
  /\ QueryUnescape(e) = s

\* C16: without an expression the URI starts with /streamsets and has exactly
\* one of /plot, /interpolated, /recorded, /summary, by the precedence
\* summary > interpolated > recorded > plot.
C16_StreamsetModePrecedence ==
  (uout # NoURI /\ uin.Expression = <<>>) =>
    /\ uout[1].name = "/streamsets"
    /\ Count(uout, ModeNames) = 1
    /\ Count(uout, {"/calculation", "/intervals"}) = 0
    /\ uout[2].name =
         (IF SummaryConfigured(uin) THEN "/summary"
          ELSE IF uin.Interpolate THEN "/interpolated"
          ELSE IF uin.RecordedValues THEN "/recorded"
          ELSE "/plot")

\* Interpolation and recorded values are both on, without a summary.
C16_Witness ==
  /\ uout # NoURI
  /\ uin.Expression = <<>>
  /\ uin.RecordedValues /\ uin.Interpolate /\ ~SummaryConfigured(uin)
  /\ Names(uout) = <<"/streamsets", "/interpolated", "?startTime=From",
                     "&endTime=To", "&interval=">>

\* C17: with an expression and no summary the URI is /calculation/intervals,
\* the time range, a sampleInterval and the expression, percent-escaped,
\* whatever the interpolate and recorded-values switches are.
C17_CalculationIntervals ==
  (uout # NoURI /\ uin.Expression # <<>> /\ ~SummaryConfigured(uin)) =>
    /\ Names(uout) = <<"/calculation", "/intervals", "?startTime=From",
                       "&endTime=To", "&sampleInterval=", "&expression=">>
    /\ IsEscapeOf(uout[6].str, uin.Expression)

C17_Witness ==
  /\ uout # NoURI
  /\ uin.Expression = <<"a", " ", "/", "&", "%">>
  /\ ~SummaryConfigured(uin)
  /\ uin.Interpolate /\ uin.RecordedValues
  /\ uout[6].str = <<"a", "+", "%", "2", "F", "%", "2", "6", "%", "2", "5">>

\* C18: getIntervalTime returns IntervalMs when it is not zero and Interval
\* otherwise, and the same value when it is called again.
C18_IntervalResolution ==
  /\ \A k \in 1..Len(ivals) :
       ivals[k] = (IF uin.IntervalMs # 0 THEN uin.IntervalMs ELSE uin.Interval)
  /\ \A j, k \in 1..Len(ivals) : ivals[j] = ivals[k]

\* C20: with an expression and a summary the URI is /calculation/summary, the
\* time range, sampleType=Interval and sampleInterval only when interpolation
\* is on, and the escaped expression, without summaryType, summaryBasis or
\* summaryDuration; the same summary without an expression has one
\* summaryType for each type, the summaryBasis and the summaryDuration.
C20_SummaryWithExpression ==
  /\ (uout # NoURI /\ uin.Expression # <<>> /\ SummaryConfigured(uin)) =>
       /\ Names(uout) =
            <<"/calculation", "/summary", "?startTime=From", "&endTime=To">>
            \o (IF uin.Interpolate
                THEN <<"&sampleType=Interval", "&sampleInterval=">> ELSE <<>>)
            \o <<"&expression=">>
       /\ IsEscapeOf(uout[Len(uout)].str, uin.Expression)
       /\ Count(uout, SummaryParams) = 0
  /\ (uout # NoURI /\ uin.Expression = <<>> /\ SummaryConfigured(uin)) =>
       /\ Count(uout, {"&summaryType="}) = Len(uin.SummaryTypes)
       /\ \A t \in 1..Len(uin.SummaryTypes) :
            \E k \in 1..Len(uout) :
              uout[k] = TokS("&summaryType=", uin.SummaryTypes[t])
       /\ Count(uout, {"&summaryBasis="}) = 1
       /\ \E k \in 1..Len(uout) : uout[k] = TokS("&summaryBasis=", uin.SummaryBasis)
       /\ Count(uout, {"&summaryDuration="}) = 1

C20_Witness ==
  /\ uout # NoURI
  /\ uin.Expression # <<>>
  /\ SummaryConfigured(uin)
  /\ uin.Interpolate
  /\ Len(uout) = 7


(***************************************************************************)
(* Properties of the resource proxy.                                       *)
(***************************************************************************)
\* The base paths the proxy is meant to let through.
AllowedPrefixes ==
  { "/assetdatabases", "/elements", "/assetservers", "/points",
    "/attributes", "/dataservers", "/annotations" }

HasAllowedPrefix(path) ==
  \E a \in AllowedPrefixes :
    Len(path) >= Len(a) /\ SubSeq(path, 1, Len(a)) = a

\* C22: CallResource enforces its allow-list: a request whose path starts
\* with none of the allowed base paths is answered with 403 and no GET is
\* issued for it; only requests with an allowed prefix are forwarded.
C22_AllowListEnforced ==
  \A i \in DOMAIN resourceLog :
    LET c == resourceLog[i]
    IN  /\ ~HasAllowedPrefix(c.req.Path) =>
             /\ c.gets = <<>>
             /\ c.sent = <<[Status |-> 403, Body |-> NoBody]>>
        /\ c.gets # <<>> => HasAllowedPrefix(c.req.Path)

=============================================================================
